---- MODULE Spec2Model ----
(***************************************************************************)
(* CrubadanCorpusReader (nltk/corpus/reader/crubadan.py).                  *)
(*                                                                         *)
(* Strings are sequences of one-character strings, so that split, strip,   *)
(* lower, int and the regular-expression search are computed, not assumed. *)
(* Python's None is the value None below; an exception is the name of its  *)
(* Python type, with the two RuntimeError messages of                      *)
(* _load_lang_mapping_data told apart by the error kind they stand for.    *)
(***************************************************************************)
EXTENDS Integers, Sequences, FiniteSets, TLC

VARIABLES disk, readers, all_lang_freq, attempts, last

vars == <<disk, readers, all_lang_freq, attempts, last>>

----------------------------------------------------------------------------
(* Python values and string primitives *)

None == <<"<None>">>

NoExc == "none"

EmptyDict == [x \in {} |-> 0]

Put(d, k, v) == [x \in (DOMAIN d) \cup {k} |-> IF x = k THEN v ELSE d[x]]

LowerChar(c) ==
  CASE c = "A" -> "a"
    [] c = "B" -> "b"
    [] c = "Q" -> "q"
    [] c = "X" -> "x"
    [] c = "Y" -> "y"
    [] c = "Z" -> "z"
    [] c = "N" -> "n"
    [] OTHER -> c

Lower(s) == [i \in 1..Len(s) |-> LowerChar(s[i])]

IsSpace(c) == c \in {" ", "\t", "\n"}

IsDigit(c) == c \in {"0", "1", "2", "3", "4", "5", "6", "7", "8", "9"}

Letters ==
  {"a", "b", "d", "e", "g", "h", "m", "n", "o", "q", "r", "s", "t", "u", "x",
   "y", "z", "A", "B", "N", "Q", "X", "Y", "Z"}

(* \w without re.UNICODE: [a-zA-Z0-9_] *)
IsWordChar(c) == c \in Letters \/ IsDigit(c) \/ c = "_"

RECURSIVE LStrip(_, _)
LStrip(s, drop) ==
  IF s # << >> /\ s[1] \in drop THEN LStrip(Tail(s), drop) ELSE s

RECURSIVE RStrip(_, _)
RStrip(s, drop) ==
  IF s # << >> /\ s[Len(s)] \in drop
  THEN RStrip(SubSeq(s, 1, Len(s) - 1), drop)
  ELSE s

Strip(s, drop) == RStrip(LStrip(s, drop), drop)

Whitespace == {" ", "\t", "\n"}

(* s.split(sep) for a one-character separator: empty fields are kept *)
RECURSIVE SplitFrom(_, _, _, _)
SplitFrom(s, sep, i, cur) ==
  IF i > Len(s) THEN <<cur>>
  ELSE IF s[i] = sep THEN <<cur>> \o SplitFrom(s, sep, i + 1, << >>)
  ELSE SplitFrom(s, sep, i + 1, Append(cur, s[i]))

Split(s, sep) == SplitFrom(s, sep, 1, << >>)

(* iterating a file object: lines keep their newline, no empty last line *)
RECURSIVE LinesFrom(_, _, _)
LinesFrom(s, i, cur) ==
  IF i > Len(s) THEN (IF cur = << >> THEN << >> ELSE <<cur>>)
  ELSE IF s[i] = "\n" THEN <<Append(cur, s[i])>> \o LinesFrom(s, i + 1, << >>)
  ELSE LinesFrom(s, i + 1, Append(cur, s[i]))

FileLines(s) == LinesFrom(s, 1, << >>)

DigitVal(c) ==
  CASE c = "0" -> 0 [] c = "1" -> 1 [] c = "2" -> 2 [] c = "3" -> 3
    [] c = "4" -> 4 [] c = "5" -> 5 [] c = "6" -> 6 [] c = "7" -> 7
    [] c = "8" -> 8 [] c = "9" -> 9

RECURSIVE DigitsValue(_, _)
DigitsValue(s, acc) ==
  IF s = << >> THEN acc ELSE DigitsValue(Tail(s), acc * 10 + DigitVal(s[1]))

(* int(text): surrounding whitespace is ignored, then base-10 digits *)
IntOfStripped(t) ==
  IF t # << >> /\ \A i \in 1..Len(t) : IsDigit(t[i])
  THEN [exc |-> NoExc, val |-> DigitsValue(t, 0)]
  ELSE [exc |-> "ValueError", val |-> 0]

IntOf(text) == IntOfStripped(Strip(text, Whitespace))

(* unicode(x): a string is itself, None is the text "None" *)
Unicode(x) == IF x = None THEN <<"N", "o", "n", "e">> ELSE x

----------------------------------------------------------------------------
(* The class constants and the file names built from them *)

_LANG_MAPPER_FILE == <<"t", "a", "b", "l", "e", ".", "t", "x", "t">>

NgramSuffix == <<"-", "3", "g", "r", "a", "m", "s", ".", "t", "x", "t">>

(* re.escape("-3grams.txt") makes every character of the suffix literal *)
SuffixAt(f, p) ==
  /\ p + Len(NgramSuffix) - 1 <= Len(f)
  /\ \A q \in 1..Len(NgramSuffix) : f[p + q - 1] = NgramSuffix[q]

(* re.search('(\w+)' + re.escape("-3grams.txt"), f): the leftmost start of *)
(* a run of word characters that is followed at once by the suffix;        *)
(* m.group() is the run and the suffix, None when nothing matches          *)
WordRun(f, i, j) == (\A k \in i..j : IsWordChar(f[k])) /\ SuffixAt(f, j + 1)

MatchStarts(f) == {i \in 1..Len(f) : \E j \in i..Len(f) : WordRun(f, i, j)}

Min(S) == CHOOSE x \in S : \A y \in S : x <= y

GroupFrom(f, i) ==
  SubSeq(f, i, (CHOOSE j \in i..Len(f) : WordRun(f, i, j)) + Len(NgramSuffix))

GroupAmong(f, starts) == IF starts = {} THEN None ELSE GroupFrom(f, Min(starts))

ReSearchGroup(f) == GroupAmong(f, MatchStarts(f))

(* valid_files of _load_all_ngrams, in listing order *)
KeepMatch(g) == IF g = None THEN << >> ELSE <<g>>

RECURSIVE ValidFiles(_)
ValidFiles(fileids) ==
  IF fileids = << >> THEN << >>
  ELSE KeepMatch(ReSearchGroup(Head(fileids))) \o ValidFiles(Tail(fileids))

(* os.path.isfile(path.join(root, name)) and the text open() would read *)
IsFile(root, name) == name \in DOMAIN disk[root]

FileText(root, name) == disk[root][name]

----------------------------------------------------------------------------
(* Code lookup: linear scans over self._lang_mapping_data.  A row is the   *)
(* list of its tab-separated fields; row[1] of the source is row[2] here.  *)
(* Results are records [exc, val].                                         *)

Ret(v) == [exc |-> NoExc, val |-> v]

Raise(e) == [exc |-> e, val |-> None]

(* i[1].lower() == lang.lower(): i[1] first, then lang.lower() *)
RECURSIVE iso_to_crubadan_from(_, _, _)
iso_to_crubadan_from(table, lang, n) ==
  IF n > Len(table) THEN Ret(None)
  ELSE IF Len(table[n]) < 2 THEN Raise("IndexError")
  ELSE IF lang = None THEN Raise("AttributeError")
  ELSE IF Lower(table[n][2]) = Lower(lang) THEN Ret(Unicode(table[n][1]))
  ELSE iso_to_crubadan_from(table, lang, n + 1)

iso_to_crubadan(table, lang) == iso_to_crubadan_from(table, lang, 1)

RECURSIVE crubadan_to_iso_from(_, _, _)
crubadan_to_iso_from(table, lang, n) ==
  IF n > Len(table) THEN Ret(None)
  ELSE IF lang = None THEN Raise("AttributeError")
  ELSE IF Lower(table[n][1]) # Lower(lang)
  THEN crubadan_to_iso_from(table, lang, n + 1)
  ELSE IF Len(table[n]) < 2 THEN Raise("IndexError")
  ELSE Ret(Unicode(table[n][2]))

(* a variant that returns the ISO code lower-cased *)
LoweredResult(r) == IF r.exc # NoExc \/ r.val = None THEN r ELSE Ret(Lower(r.val))

crubadan_to_iso_lowered(table, lang) ==
  LoweredResult(crubadan_to_iso_from(table, lang, 1))

crubadan_to_iso(table, lang) == crubadan_to_iso_from(table, lang, 1)

(* langs(): the second field of every row, in table order *)
langs(table) ==
  IF \E n \in 1..Len(table) : Len(table[n]) < 2 THEN Raise("IndexError")
  ELSE Ret([n \in 1..Len(table) |-> table[n][2]])

----------------------------------------------------------------------------
(* _load_lang_mapping_data: [exc, table, reads] *)

IsZipFilePathPointer(root) == root = "zip"

RowsOf(lines) == [n \in 1..Len(lines) |-> Split(lines[n], "\t")]

ParseTable(text) == RowsOf(Split(Strip(text, Whitespace), "\n"))

(* a variant without the ZipFilePathPointer test of line 72 *)
_load_lang_mapping_data_unguarded(root, fileids) ==
  IF \A n \in 1..Len(fileids) : fileids[n] # _LANG_MAPPER_FILE
  THEN [exc |-> "MappingFileMissing", table |-> << >>, reads |-> {}]
  ELSE IF ~ IsFile(root, _LANG_MAPPER_FILE)
  THEN [exc |-> "IOError", table |-> << >>, reads |-> {}]
  ELSE [exc |-> NoExc,
        table |-> ParseTable(FileText(root, _LANG_MAPPER_FILE)),
        reads |-> {<<root, _LANG_MAPPER_FILE>>}]

_load_lang_mapping_data(root, fileids) ==
  IF IsZipFilePathPointer(root)
  THEN [exc |-> "CorpusNotInstalled", table |-> << >>, reads |-> {}]
  ELSE IF \A n \in 1..Len(fileids) : fileids[n] # _LANG_MAPPER_FILE
  THEN [exc |-> "MappingFileMissing", table |-> << >>, reads |-> {}]
  ELSE IF ~ IsFile(root, _LANG_MAPPER_FILE)
  THEN [exc |-> "IOError", table |-> << >>, reads |-> {}]
  ELSE [exc |-> NoExc,
        table |-> ParseTable(FileText(root, _LANG_MAPPER_FILE)),
        reads |-> {<<root, _LANG_MAPPER_FILE>>}]

----------------------------------------------------------------------------
(* _load_lang_ngrams: [exc, val, reads], val the FreqDist as a function    *)
(* from n-gram to count                                                    *)

(* counts[ngram] = freq, line 102, once int(data[0]) is known *)
SetCount(counts, ngram, freq) ==
  IF freq.exc # NoExc THEN [exc |-> freq.exc, val |-> counts]
  ELSE [exc |-> NoExc, val |-> Put(counts, ngram, freq.val)]

(* lines 99-102 on the fields of one line: data[1] first, then int(data[0]) *)
ParseFields(counts, data) ==
  IF Len(data) < 2 THEN [exc |-> "IndexError", val |-> counts]
  ELSE SetCount(counts, Strip(data[2], {"\n"}), IntOf(data[1]))

ParseLine(counts, line) == ParseFields(counts, Split(line, " "))

RECURSIVE ParseLines(_, _)
RECURSIVE ParseRest(_, _)
ParseRest(one, rest) == IF one.exc # NoExc THEN one ELSE ParseLines(one.val, rest)

ParseLines(counts, lines) ==
  IF lines = << >> THEN [exc |-> NoExc, val |-> counts]
  ELSE ParseRest(ParseLine(counts, Head(lines)), Tail(lines))

NgramFileName(code) == Unicode(code) \o NgramSuffix

Loaded(root, name, parsed) ==
  [exc |-> parsed.exc,
   val |-> IF parsed.exc = NoExc THEN parsed.val ELSE EmptyDict,
   reads |-> {<<root, name>>}]

(* lines 89-104: the isfile test, then the loop over the lines *)
LoadNgramFile(root, name) ==
  IF ~ IsFile(root, name)
  THEN [exc |-> "NameError", val |-> EmptyDict, reads |-> {}]
  ELSE Loaded(root, name, ParseLines(EmptyDict, FileLines(FileText(root, name))))

LoadNgramsOf(root, code) ==
  IF code.exc # NoExc THEN [exc |-> code.exc, val |-> EmptyDict, reads |-> {}]
  ELSE LoadNgramFile(root, NgramFileName(code.val))

_load_lang_ngrams(root, table, lang) ==
  LoadNgramsOf(root, iso_to_crubadan(table, lang))

----------------------------------------------------------------------------
(* _load_all_ngrams: [exc, cache, reads], cache the class attribute        *)
(* all_lang_freq after the call (entries stored before an exception stay)  *)

CrubadanCodeOf(f) == Split(f, "-")[1]

(* a variant that adds the new counts to an entry already in the cache *)
AddCounts(old, fd) ==
  [g \in (DOMAIN old) \cup (DOMAIN fd) |->
     (IF g \in DOMAIN old THEN old[g] ELSE 0) + (IF g \in DOMAIN fd THEN fd[g] ELSE 0)]

StoreFreqAdding(cache, iso_code, fd) ==
  IF iso_code \in DOMAIN cache
  THEN Put(cache, iso_code, AddCounts(cache[iso_code], fd))
  ELSE Put(cache, iso_code, fd)

StoreFreq(cache, iso_code, fd) == Put(cache, iso_code, fd)

RECURSIVE LoadFiles(_, _, _, _, _)
RECURSIVE LoadStore(_, _, _, _, _, _, _)
RECURSIVE LoadResolved(_, _, _, _, _, _)

(* line 126 *)
LoadStore(root, table, files, cache, reads, iso_code, fd) ==
  IF fd.exc # NoExc
  THEN [exc |-> fd.exc, cache |-> cache, reads |-> reads \cup fd.reads]
  ELSE LoadFiles(root, table, Tail(files), StoreFreq(cache, iso_code, fd.val),
                 reads \cup fd.reads)

(* line 125 *)
LoadResolved(root, table, files, cache, reads, iso) ==
  IF iso.exc # NoExc THEN [exc |-> iso.exc, cache |-> cache, reads |-> reads]
  ELSE LoadStore(root, table, files, cache, reads, iso.val,
                 _load_lang_ngrams(root, table, iso.val))

(* lines 118-123 *)
LoadFiles(root, table, files, cache, reads) ==
  IF files = << >> THEN [exc |-> NoExc, cache |-> cache, reads |-> reads]
  ELSE IF ~ IsFile(root, Head(files))
  THEN LoadFiles(root, table, Tail(files), cache, reads)
  ELSE LoadResolved(root, table, files, cache, reads,
                    crubadan_to_iso(table, CrubadanCodeOf(Head(files))))

_load_all_ngrams(root, fileids, table, cache) ==
  LoadFiles(root, table, ValidFiles(fileids), cache, {})

----------------------------------------------------------------------------
(* Bounds and the inputs the model draws from *)

MaxInits == 2

CodeA == <<"a">>
CodeB == <<"b">>
CodeQ == <<"q">>
IsoX == <<"x">>
IsoY == <<"y">>
IsoZ == <<"z">>

FileA == CodeA \o NgramSuffix
FileB == CodeB \o NgramSuffix
FileQ == CodeQ \o NgramSuffix
FileNone == <<"N", "o", "n", "e">> \o NgramSuffix
FileSubQ == <<"s", "u", "b", "/">> \o FileQ

(* table.txt texts: "a\tx\nb\ty\n", "a\tx\nA\ty\n", "a\tx\nb\tx\n", "a\tx\nb\n", *)
(* "a\tx\nB\tY\n"                                                          *)
TablePlain == <<"a", "\t", "x", "\n", "b", "\t", "y", "\n">>
TableCase == <<"a", "\t", "x", "\n", "A", "\t", "y", "\n">>
TableDupIso == <<"a", "\t", "x", "\n", "b", "\t", "x", "\n">>
TableShort == <<"a", "\t", "x", "\n", "b", "\n">>
TableMixed == <<"a", "\t", "x", "\n", "B", "\t", "Y", "\n">>

(* n-gram files are written from lists of <<count, n-gram>> entries, one   *)
(* line "<count> <ngram>\n" each; NgramsBad is a line without a space      *)
DecimalDigit(d) == <<"0", "1", "2", "3", "4", "5", "6", "7", "8", "9">>[d + 1]

RECURSIVE Decimal(_)
Decimal(n) ==
  IF n < 10 THEN <<DecimalDigit(n)>>
  ELSE Decimal(n \div 10) \o <<DecimalDigit(n % 10)>>

RECURSIVE WriteLines(_)
WriteLines(entries) ==
  IF entries = << >> THEN << >>
  ELSE Decimal(Head(entries)[1]) \o <<" ">> \o Head(entries)[2] \o <<"\n">>
       \o WriteLines(Tail(entries))

The == <<"t", "h", "e">>
And == <<"a", "n", "d">>

EntriesTheAnd == << <<5, The>>, <<3, And>> >>
EntriesThe == << <<7, The>> >>
EntriesRepeat == << <<12, And>>, <<40, And>> >>

EntryLists == {EntriesTheAnd, EntriesThe, EntriesRepeat}

NgramsBad == <<"o", "o", "n", "s", "\n">>

File(name, text) == [n \in {name} |-> text]

DirPlain ==
  File(_LANG_MAPPER_FILE, TablePlain) @@ File(FileA, WriteLines(EntriesTheAnd))
    @@ File(FileB, WriteLines(EntriesRepeat))

DirOther ==
  File(_LANG_MAPPER_FILE, TablePlain) @@ File(FileA, WriteLines(EntriesThe))
    @@ File(FileB, WriteLines(EntriesThe))

DirStray ==
  File(_LANG_MAPPER_FILE, TablePlain) @@ File(FileA, WriteLines(EntriesTheAnd))
    @@ File(FileQ, WriteLines(EntriesThe)) @@ File(FileNone, WriteLines(EntriesThe))

DirCase ==
  File(_LANG_MAPPER_FILE, TableCase) @@ File(FileA, WriteLines(EntriesTheAnd))

DirDupIso ==
  File(_LANG_MAPPER_FILE, TableDupIso) @@ File(FileA, WriteLines(EntriesTheAnd))
    @@ File(FileB, WriteLines(EntriesThe))

DirShort ==
  File(_LANG_MAPPER_FILE, TableShort) @@ File(FileA, WriteLines(EntriesTheAnd))
    @@ File(FileB, WriteLines(EntriesThe))

DirBad ==
  File(_LANG_MAPPER_FILE, TableMixed) @@ File(FileA, NgramsBad)

Roots == {"rootA", "rootB", "zip"}

Disks ==
  {[r \in Roots |-> IF r = "rootA" THEN a ELSE IF r = "rootB" THEN DirOther ELSE DirPlain] :
     a \in {DirPlain, DirStray, DirCase, DirDupIso, DirShort, DirBad}}

Listings ==
  { <<_LANG_MAPPER_FILE, FileA, FileQ, FileB>>,
    <<_LANG_MAPPER_FILE>>,
    <<FileA, FileB>>,
    <<_LANG_MAPPER_FILE, FileSubQ, FileA>> }

LangArgs == {IsoX, <<"X">>, IsoY, IsoZ}

CodeArgs == {<<"A">>, <<"B">>, CodeQ}

----------------------------------------------------------------------------
(* The state machine.  readers holds the instances whose __init__          *)
(* returned; all_lang_freq is the class attribute shared by all of them;   *)
(* attempts counts the __init__ calls and keeps the latest; last is the    *)
(* latest call with its outcome, the files it opened and whether it ran    *)
(* _load_all_ngrams.                                                       *)

NoCall ==
  [op |-> "none", self |-> 0, arg |-> None, exc |-> NoExc, ret |-> None,
   reads |-> {}, bulk |-> FALSE]

NoAttempt == [n |-> 0, root |-> "none", fileids |-> << >>, exc |-> NoExc]

Init ==
  /\ disk \in Disks
  /\ readers = << >>
  /\ all_lang_freq = EmptyDict
  /\ attempts = NoAttempt
  /\ last = NoCall

Reader(root, fileids, table) ==
  [root |-> root, fileids |-> fileids, _lang_mapping_data |-> table]

(* __init__: the mapping load, then the bulk load; an exception leaves no  *)
(* instance behind but keeps what the bulk load already stored.            *)
(* [exc, table, cache, reads, bulk]                                        *)
InitLoaded(m, b) ==
  [exc |-> b.exc, table |-> m.table, cache |-> b.cache,
   reads |-> m.reads \cup b.reads, bulk |-> TRUE]

InitMapped(root, fileids, cache, m) ==
  IF m.exc # NoExc
  THEN [exc |-> m.exc, table |-> m.table, cache |-> cache, reads |-> m.reads,
        bulk |-> FALSE]
  ELSE InitLoaded(m, _load_all_ngrams(root, fileids, m.table, cache))

InitOutcome(root, fileids, cache) ==
  InitMapped(root, fileids, cache, _load_lang_mapping_data(root, fileids))

InitStep(root, fileids, o) ==
  /\ attempts.n < MaxInits
  /\ readers' = IF o.exc = NoExc
                THEN Append(readers, Reader(root, fileids, o.table))
                ELSE readers
  /\ all_lang_freq' = o.cache
  /\ attempts' = [n |-> attempts.n + 1, root |-> root, fileids |-> fileids,
                  exc |-> o.exc]
  /\ last' = [op |-> "__init__", self |-> Len(readers'), arg |-> <<root, fileids>>,
              exc |-> o.exc, ret |-> None, reads |-> o.reads, bulk |-> o.bulk]
  /\ UNCHANGED disk

__init__(root, fileids) ==
  InitStep(root, fileids, InitOutcome(root, fileids, all_lang_freq))

(* lang_freq: [exc, val, cache, reads, bulk] *)
Lookup(lang, b, bulk) ==
  IF b.exc # NoExc
  THEN [exc |-> b.exc, val |-> None, cache |-> b.cache, reads |-> b.reads,
        bulk |-> bulk]
  ELSE IF lang \notin DOMAIN b.cache
  THEN [exc |-> "KeyError", val |-> None, cache |-> b.cache, reads |-> b.reads,
        bulk |-> bulk]
  ELSE [exc |-> NoExc, val |-> b.cache[lang], cache |-> b.cache,
        reads |-> b.reads, bulk |-> bulk]

CacheIsEmpty(cache) == Cardinality(DOMAIN cache) = 0

(* a variant that reloads whenever the requested key is missing *)
LangFreqOutcomeReloadOnMiss(self, lang, cache) ==
  IF lang \notin DOMAIN cache
  THEN Lookup(lang,
              _load_all_ngrams(self.root, self.fileids, self._lang_mapping_data, cache),
              TRUE)
  ELSE Lookup(lang, [exc |-> NoExc, cache |-> cache, reads |-> {}], FALSE)

LangFreqOutcome(self, lang, cache) ==
  IF CacheIsEmpty(cache)
  THEN Lookup(lang,
              _load_all_ngrams(self.root, self.fileids, self._lang_mapping_data, cache),
              TRUE)
  ELSE Lookup(lang, [exc |-> NoExc, cache |-> cache, reads |-> {}], FALSE)

LangFreqStep(i, lang, o) ==
  /\ all_lang_freq' = o.cache
  /\ last' = [op |-> "lang_freq", self |-> i, arg |-> lang, exc |-> o.exc,
              ret |-> o.val, reads |-> o.reads, bulk |-> o.bulk]
  /\ UNCHANGED <<disk, readers, attempts>>

lang_freq(i, lang) ==
  LangFreqStep(i, lang, LangFreqOutcome(readers[i], lang, all_lang_freq))

Call(op, i, arg, o) ==
  /\ last' = [op |-> op, self |-> i, arg |-> arg, exc |-> o.exc, ret |-> o.val,
              reads |-> {}, bulk |-> FALSE]
  /\ UNCHANGED <<disk, readers, all_lang_freq, attempts>>

CallLangs(i) == Call("langs", i, None, langs(readers[i]._lang_mapping_data))

CallIsoToCrubadan(i, lang) ==
  Call("iso_to_crubadan", i, lang, iso_to_crubadan(readers[i]._lang_mapping_data, lang))

CallCrubadanToIso(i, code) ==
  Call("crubadan_to_iso", i, code, crubadan_to_iso(readers[i]._lang_mapping_data, code))

LoadStep(i, lang, o) ==
  /\ last' = [op |-> "_load_lang_ngrams", self |-> i, arg |-> lang,
              exc |-> o.exc, ret |-> IF o.exc = NoExc THEN o.val ELSE None,
              reads |-> o.reads, bulk |-> FALSE]
  /\ UNCHANGED <<disk, readers, all_lang_freq, attempts>>

CallLoadLangNgrams(i, lang) ==
  LoadStep(i, lang,
           _load_lang_ngrams(readers[i].root, readers[i]._lang_mapping_data, lang))

Next ==
  \/ \E root \in Roots, fileids \in Listings : __init__(root, fileids)
  \/ \E i \in 1..Len(readers), lang \in LangArgs : lang_freq(i, lang)
  \/ \E i \in 1..Len(readers) : CallLangs(i)
  \/ \E i \in 1..Len(readers), lang \in LangArgs : CallIsoToCrubadan(i, lang)
  \/ \E i \in 1..Len(readers), code \in CodeArgs : CallCrubadanToIso(i, code)
  \/ \E i \in 1..Len(readers), lang \in LangArgs : CallLoadLangNgrams(i, lang)

Spec == Init /\ [][Next]_vars

----------------------------------------------------------------------------
(* Vocabulary of the properties *)

Range(q) == {q[n] : n \in 1..Len(q)}

TableOf(i) == readers[i]._lang_mapping_data

WellFormed(table) == \A n \in 1..Len(table) : Len(table[n]) >= 2

(* the distribution a list of "<count> <ngram>" lines denotes: the n-grams *)
(* of the lines, each with the count of its last line                      *)
LastLineOf(entries, ngram) ==
  CHOOSE n \in 1..Len(entries) :
    /\ entries[n][2] = ngram
    /\ \A m \in (n + 1)..Len(entries) : entries[m][2] # ngram

DistOf(entries) ==
  [g \in {entries[n][2] : n \in 1..Len(entries)} |->
     entries[LastLineOf(entries, g)][1]]

NoDuplicateCodes(table) ==
  \A m, n \in 1..Len(table) :
    m # n => table[m][1] # table[n][1] /\ table[m][2] # table[n][2]

NoDuplicateCodesIgnoringCase(table) ==
  \A m, n \in 1..Len(table) :
    m # n => /\ Lower(table[m][1]) # Lower(table[n][1])
             /\ Lower(table[m][2]) # Lower(table[n][2])

(* crubadan_to_iso(iso_to_crubadan(k)) *)
RoundTripVia(table, code) ==
  IF code.exc # NoExc THEN code ELSE crubadan_to_iso(table, code.val)

RoundTrip(table, k) == RoundTripVia(table, iso_to_crubadan(table, k))

IsInitStep == attempts'.n # attempts.n

----------------------------------------------------------------------------
(* C3: constructing a reader again on the root and file listing of the     *)
(* construction just completed succeeds with the same mapping table (so    *)
(* the same langs()), leaves all_lang_freq as it was, and gives the same   *)
(* lang_freq result for every code, for the new and the first reader.      *)
SameAnswer(o1, o2) == o1.exc = o2.exc /\ o1.val = o2.val

C3_SecondConstructionIdentical ==
  [][(/\ IsInitStep
      /\ attempts.n > 0
      /\ attempts.exc = NoExc
      /\ attempts'.root = attempts.root
      /\ attempts'.fileids = attempts.fileids)
     => /\ attempts'.exc = NoExc
        /\ Len(readers') = Len(readers) + 1
        /\ SubSeq(readers', 1, Len(readers)) = readers
        /\ langs(readers'[Len(readers')]._lang_mapping_data)
             = langs(readers[Len(readers)]._lang_mapping_data)
        /\ all_lang_freq' = all_lang_freq
        /\ \A k \in LangArgs :
             /\ SameAnswer(LangFreqOutcome(readers'[Len(readers')], k, all_lang_freq'),
                           LangFreqOutcome(readers[Len(readers)], k, all_lang_freq))
             /\ SameAnswer(LangFreqOutcome(readers[Len(readers)], k, all_lang_freq'),
                           LangFreqOutcome(readers[Len(readers)], k, all_lang_freq))]_vars

C3_Witness ==
  /\ last.op = "__init__"
  /\ last.exc = NoExc
  /\ Len(readers) = 2
  /\ readers[1].root = readers[2].root
  /\ readers[1].fileids = readers[2].fileids
  /\ Cardinality(DOMAIN all_lang_freq) = 2

----------------------------------------------------------------------------
(* C4: construction on a zip root fails with CorpusNotInstalled, and on a  *)
(* local root whose listing lacks table.txt with MappingFileMissing; in    *)
(* both cases no file is opened, _load_all_ngrams does not run, and        *)
(* all_lang_freq and every reader's mapping table stay as they were.       *)
ListsMapper(fileids) == _LANG_MAPPER_FILE \in Range(fileids)

C4_SetupErrorsBeforeAnyRead ==
  [][(IsInitStep /\ (attempts'.root = "zip" \/ ~ ListsMapper(attempts'.fileids)))
     => /\ attempts'.exc = IF attempts'.root = "zip" THEN "CorpusNotInstalled"
                           ELSE "MappingFileMissing"
        /\ last'.exc = attempts'.exc
        /\ last'.reads = {}
        /\ ~ last'.bulk
        /\ all_lang_freq' = all_lang_freq
        /\ readers' = readers]_vars

C4_Witness ==
  /\ last.op = "__init__"
  /\ last.exc = "CorpusNotInstalled"
  /\ ListsMapper(last.arg[2])
  /\ Len(readers) = 1
  /\ DOMAIN all_lang_freq # {}

----------------------------------------------------------------------------
(* C5 as stated: for every k of langs(), when no internal code and no ISO  *)
(* code occurs twice in the table, crubadan_to_iso(iso_to_crubadan(k))     *)
(* returns k.                                                              *)
RoundTripHolds(table) ==
  \A n \in 1..Len(table) : RoundTrip(table, langs(table).val[n]) = Ret(langs(table).val[n])

C5_RoundTripNoDuplicates ==
  \A i \in 1..Len(readers) :
    (langs(TableOf(i)).exc = NoExc /\ NoDuplicateCodes(TableOf(i)))
      => RoundTripHolds(TableOf(i))

(* C5: the round trip returns k when no two rows have internal codes, or   *)
(* ISO codes, that are equal ignoring case.                                *)
C5_RoundTripNoDuplicatesIgnoringCase ==
  \A i \in 1..Len(readers) :
    (langs(TableOf(i)).exc = NoExc /\ NoDuplicateCodesIgnoringCase(TableOf(i)))
      => RoundTripHolds(TableOf(i))

C5_Witness ==
  /\ last.op = "crubadan_to_iso"
  /\ last.exc = NoExc
  /\ NoDuplicateCodesIgnoringCase(TableOf(last.self))
  /\ last.arg = <<"B">>
  /\ iso_to_crubadan(TableOf(last.self), <<"Y">>) = Ret(last.arg)
  /\ last.ret = <<"Y">>

----------------------------------------------------------------------------
(* C10 as stated: lang_freq runs _load_all_ngrams exactly when             *)
(* all_lang_freq is empty at the call; with a non-empty cache it opens no  *)
(* file and changes neither the cache nor any mapping table; and a reader  *)
(* whose construction succeeded never takes the reload.                    *)
IsLangFreqStep == last'.op = "lang_freq"

ReloadIffEmpty ==
  IsLangFreqStep
    => /\ last'.bulk <=> CacheIsEmpty(all_lang_freq)
       /\ ~ CacheIsEmpty(all_lang_freq)
            => /\ last'.reads = {}
               /\ all_lang_freq' = all_lang_freq
               /\ readers' = readers

C10_ReloadNeverAfterConstruction ==
  [][ReloadIffEmpty /\ (IsLangFreqStep => ~ last'.bulk)]_vars

(* C10: the reload runs exactly when the cache is empty at the call and a  *)
(* call on a non-empty cache changes nothing; once the cache holds an      *)
(* entry it never becomes empty again, so no later lang_freq reloads.      *)
C10_ReloadOnlyWhileCacheEmpty ==
  [][/\ ReloadIffEmpty
     /\ ~ CacheIsEmpty(all_lang_freq)
          => /\ ~ CacheIsEmpty(all_lang_freq')
             /\ IsLangFreqStep => ~ last'.bulk]_vars

C10_Witness ==
  /\ last.op = "lang_freq"
  /\ last.exc = NoExc
  /\ ~ last.bulk
  /\ last.reads = {}
  /\ last.ret = all_lang_freq[last.arg]

----------------------------------------------------------------------------
(* C1: for every constructed reader whose table has no two codes equal     *)
(* ignoring case, and every listed file "<c>-3grams.txt" on disk whose     *)
(* code c resolves to k, lang_freq(k) returns the distribution of the      *)
(* lines of that file.                                                     *)
ListedCodes == {CodeA, CodeB, CodeQ}

ReturnsFileOf(i, c, k) ==
  \A e \in EntryLists :
    FileText(readers[i].root, c \o NgramSuffix) = WriteLines(e)
      => /\ LangFreqOutcome(readers[i], k, all_lang_freq).exc = NoExc
         /\ LangFreqOutcome(readers[i], k, all_lang_freq).val = DistOf(e)

C1_LangFreqReturnsOwnFile ==
  \A i \in 1..Len(readers) : \A c \in ListedCodes :
    (/\ WellFormed(TableOf(i))
     /\ NoDuplicateCodesIgnoringCase(TableOf(i))
     /\ (c \o NgramSuffix) \in Range(readers[i].fileids)
     /\ IsFile(readers[i].root, c \o NgramSuffix)
     /\ crubadan_to_iso(TableOf(i), c).exc = NoExc
     /\ crubadan_to_iso(TableOf(i), c).val # None)
    => ReturnsFileOf(i, c, crubadan_to_iso(TableOf(i), c).val)

----------------------------------------------------------------------------
(* C2: lang_freq(iso_code) raises KeyError whenever no row of the calling  *)
(* reader's (well-formed) table has that ISO code, compared as the lookups *)
(* compare.                                                                *)
HasIso(table, lang) ==
  \E n \in 1..Len(table) : Len(table[n]) >= 2 /\ Lower(table[n][2]) = Lower(lang)

C2_UnmappedCodeIsKeyError ==
  (/\ last.op = "lang_freq"
   /\ WellFormed(TableOf(last.self))
   /\ ~ HasIso(TableOf(last.self), last.arg))
  => last.exc = "KeyError"

----------------------------------------------------------------------------
(* C6: when the bulk load of a construction meets listed files on disk     *)
(* whose code is in no row of the table, and the load of the other files   *)
(* alone succeeds, the construction completes and the cache holds what     *)
(* the other files give.                                                   *)
Unmapped(root, table, f) ==
  IsFile(root, f) /\ crubadan_to_iso(table, CrubadanCodeOf(f)) = Ret(None)

RECURSIVE Mapped(_, _, _)
Mapped(root, table, files) ==
  IF files = << >> THEN << >>
  ELSE (IF Unmapped(root, table, Head(files)) THEN << >> ELSE <<Head(files)>>)
       \o Mapped(root, table, Tail(files))

LoadedTable(root) == ParseTable(FileText(root, _LANG_MAPPER_FILE))

OthersLoad(root, fileids) ==
  LoadFiles(root, LoadedTable(root),
            Mapped(root, LoadedTable(root), ValidFiles(fileids)), EmptyDict, {})

C6_UnmappedFileSkipped ==
  (/\ last.op = "__init__"
   /\ last.bulk
   /\ \E f \in Range(ValidFiles(last.arg[2])) :
        Unmapped(last.arg[1], LoadedTable(last.arg[1]), f)
   /\ OthersLoad(last.arg[1], last.arg[2]).exc = NoExc)
  => /\ last.exc = NoExc
     /\ \A k \in DOMAIN OthersLoad(last.arg[1], last.arg[2]).cache :
          /\ k \in DOMAIN all_lang_freq
          /\ all_lang_freq[k] = OthersLoad(last.arg[1], last.arg[2]).cache[k]

----------------------------------------------------------------------------
(* C7: for every constructed reader with a well-formed table, every key   *)
(* of all_lang_freq is an ISO code of the table (compared as the lookups   *)
(* compare), and every row whose file "<internal_code>-3grams.txt" is      *)
(* listed and on disk has its ISO code as a key.                           *)
C7_CacheKeysMatchTable ==
  \A i \in 1..Len(readers) :
    WellFormed(TableOf(i)) =>
    /\ \A k \in DOMAIN all_lang_freq : HasIso(TableOf(i), k)
    /\ \A n \in 1..Len(TableOf(i)) :
         (/\ NgramFileName(TableOf(i)[n][1]) \in Range(readers[i].fileids)
          /\ IsFile(readers[i].root, NgramFileName(TableOf(i)[n][1])))
         => TableOf(i)[n][2] \in DOMAIN all_lang_freq

----------------------------------------------------------------------------
(* C8: no step removes an entry of all_lang_freq or changes its value.     *)
C8_CacheEntriesStable ==
  [][\A k \in DOMAIN all_lang_freq :
       k \in DOMAIN all_lang_freq' /\ all_lang_freq'[k] = all_lang_freq[k]]_vars

----------------------------------------------------------------------------
(* C9: _load_lang_ngrams(iso_code) returns a distribution only when        *)
(* iso_code has a row and that row's "<internal_code>-3grams.txt" exists;  *)
(* it raises when iso_code has no row, and when the row's file is missing. *)
RowFileExists(i, lang) ==
  /\ iso_to_crubadan(TableOf(i), lang).exc = NoExc
  /\ iso_to_crubadan(TableOf(i), lang).val # None
  /\ IsFile(readers[i].root, NgramFileName(iso_to_crubadan(TableOf(i), lang).val))

C9_LoaderFailsWithoutMappingOrFile ==
  last.op = "_load_lang_ngrams"
    => /\ last.exc = NoExc => RowFileExists(last.self, last.arg)
       /\ ~ HasIso(TableOf(last.self), last.arg) => last.exc # NoExc
       /\ (HasIso(TableOf(last.self), last.arg) /\ ~ RowFileExists(last.self, last.arg))
            => last.exc # NoExc

====
